---- MODULE Spec2Model ----
(***************************************************************************)
(* Travelling salesman by simulated annealing (src/Main/Main.py).          *)
(*                                                                         *)
(* Python lists are TLA+ sequences: the element at Python index k is at    *)
(* position k + 1.  City indices keep Python's numbering 0..N-1.           *)
(*                                                                         *)
(* Distances and efficiencies are the code's floats rounded to 4 decimal   *)
(* digits; they are held as integers in units of 1/Scale (1.4142 is        *)
(* 14142).  sqrt of an integer never lies exactly half way between two     *)
(* 4-digit decimals, so round(sqrt(d2), 4) is the nearest integer to       *)
(* sqrt(d2 * Scale^2); a sum of such values rounded again to 4 digits is   *)
(* their exact sum.                                                        *)
(***************************************************************************)
EXTENDS Integers, Sequences, FiniteSets, TLC

\* Bounds of the model.
MaxCoord == 1
MaxN == 4
MaxIterations == 3

\* round(..., 4): four decimal digits (lines 75 and 95).
Scale == 10000

VARIABLES
    pc,                  \* position in my_main / do_simulated_annealing
    raised,              \* <<exception, function>> once a call has raised
    coordinates,         \* list of [x, y]
    distances_list,      \* nested list of distances, [city -> [city -> distance]]
    current_node,        \* get_initial_solution
    solution,            \* get_initial_solution; the starting tour handed on
    temp_list,           \* get_initial_solution: the unvisited cities
    remaining,           \* iterations left of "for _ in range(len(temp_list))"
    starting_efficiency,
    heap,                \* the list objects do_simulated_annealing works on
    current_solution,    \* reference into heap
    best_solution,       \* reference into heap
    candidate,           \* reference into heap (0: not yet bound)
    current_efficiency,
    best_efficiency,
    candidate_efficiency,
    efficiency_list,
    temperature,         \* <<N, k>>: the float sqrt(N) * 0.995^k
    i

vars == <<pc, raised, coordinates, distances_list, current_node, solution,
          temp_list, remaining, starting_efficiency, heap, current_solution,
          best_solution, candidate, current_efficiency, best_efficiency,
          candidate_efficiency, efficiency_list, temperature, i>>

greedyVars == <<current_node, solution, temp_list, remaining>>

saVars == <<heap, current_solution, best_solution, candidate,
            current_efficiency, best_efficiency, candidate_efficiency,
            efficiency_list, temperature, i>>

----------------------------------------------------------------------------
\* Helpers for Python's list operations.

\* lst[k]
At(lst, k) == lst[k + 1]

\* len(coordinates)
N == Len(coordinates)

\* k in lst
Contains(lst, k) == \E p \in 1..Len(lst) : lst[p] = k

\* lst.index(v): the first position holding v (the caller makes sure there is one)
IndexOf(lst, v) == CHOOSE k \in 0..(Len(lst) - 1) :
                      /\ At(lst, k) = v
                      /\ \A j \in 0..(k - 1) : At(lst, j) # v

\* lst.remove(v): the list without the first occurrence of v
Remove(lst, v) ==
    LET k == IndexOf(lst, v)
    IN  [p \in 1..(Len(lst) - 1) |-> IF p <= k THEN lst[p] ELSE lst[p + 1]]

\* min(lst) of a non-empty list
MinOf(lst) == CHOOSE m \in {lst[p] : p \in 1..Len(lst)} :
                 \A p \in 1..Len(lst) : m <= lst[p]

\* random.randint(a, b): the values it can return; none when a > b, where it
\* raises ValueError (empty range).
RandInt(a, b) == a..b

\* list(range(0, n))
Range0(n) == [p \in 1..n |-> p - 1]

\* A tour of n cities: length n, each index of 0..n-1 exactly once.
IsPermutation(s, n) ==
    /\ Len(s) = n
    /\ \A c \in 0..(n - 1) : Cardinality({p \in 1..n : s[p] = c}) = 1

----------------------------------------------------------------------------
\* get_distances_list

\* math.pow(x, 2)
Pow2(x) == x * x

\* The nearest integer to the square root of x.
RECURSIVE NearestRoot(_, _, _)
NearestRoot(x, lo, hi) ==
    IF lo = hi THEN lo
    ELSE LET mid == (lo + hi + 1) \div 2
         IN  IF mid * mid - mid < x
             THEN NearestRoot(x, mid, hi)
             ELSE NearestRoot(x, lo, mid - 1)

\* round(math.sqrt(d2), 4), in units of 1/Scale
RoundedSqrt(d2) == NearestRoot(d2 * Scale * Scale, 0, 46340)

get_distances_list(coords) ==
    [a \in 0..(Len(coords) - 1) |->
        [b \in 0..(Len(coords) - 1) |->
            RoundedSqrt(Pow2(At(coords, a)[1] - At(coords, b)[1])
                        + Pow2(At(coords, a)[2] - At(coords, b)[2]))]]

\* A row of the matrix as a Python list
Row(dist_matrix, a) == [p \in 1..N |-> dist_matrix[a][p - 1]]

----------------------------------------------------------------------------
\* get_efficiency

\* The sum of distances_list[solution[k - 1]][solution[k]] for k in 1..upto
RECURSIVE ConsecutiveSum(_, _, _)
ConsecutiveSum(sol, dl, upto) ==
    IF upto <= 0 THEN 0
    ELSE ConsecutiveSum(sol, dl, upto - 1) + dl[At(sol, upto - 1)][At(sol, upto)]

\* The edge from the last city back to the first (line 94)
ClosingEdge(sol, dl, num_coordinates) ==
    dl[At(sol, 0)][At(sol, num_coordinates - 1)]

get_efficiency(sol, dl, num_coordinates) ==
    ConsecutiveSum(sol, dl, num_coordinates - 1)
        + ClosingEdge(sol, dl, num_coordinates)

----------------------------------------------------------------------------
\* get_initial_solution

\* random.randint(0, len(coordinates)) (line 107)
StartCities(n) == RandInt(0, n)

\* Lines 112-115: the distances from current to the unvisited cities, and the
\* first index of the current city's whole row that holds their minimum.
NearestIndex(dist_matrix, current, unvisited) ==
    LET distances == [p \in 1..Len(unvisited) |-> dist_matrix[current][unvisited[p]]]
    IN  IndexOf(Row(dist_matrix, current), MinOf(distances))

----------------------------------------------------------------------------
\* do_simulated_annealing

\* Addresses of the list objects.  Address 1 holds the caller's list; the
\* lists made by list(...) live at 2..4, and an address no variable refers
\* to any more is free to be used again.
Addresses == 1..4

FreshAddress(cur, best) ==
    CHOOSE a \in 2..4 : /\ a \notin {cur, best}
                        /\ \A b \in 2..(a - 1) : b \in {cur, best}

\* Variant of CopyOf: the source list itself instead of a copy
AliasOf(src, fresh) == src

\* list(src): the reference it returns is a new object (lines 41 and 44)
CopyOf(src, fresh) == fresh

\* Variant of ReverseSegment: the mirror taken without the offset num_b
ReverseSegmentNoOffset(s, num_b, num_a) ==
    [p \in 1..Len(s) |->
        IF num_b < p /\ p <= num_b + num_a
        THEN s[num_a + 1 - (p - num_b)]
        ELSE s[p]]

\* candidate[num_b:(num_b + num_a)] = reversed(candidate[num_b:(num_b + num_a)])
ReverseSegment(s, num_b, num_a) ==
    [p \in 1..Len(s) |->
        IF num_b < p /\ p <= num_b + num_a
        THEN s[2 * num_b + num_a + 1 - p]
        ELSE s[p]]

\* temperature > 0: sqrt(n) * 0.995^k is a positive double for every n >= 1
\* and every k up to the iteration cap (0.995^100000 is about 1e-218), and
\* it is 0.0 for n = 0.
TemperaturePositive(temp) == temp[1] > 0

\* while temperature > 0 and i < 100000 (line 43); MaxIterations stands for
\* the cap.
LoopCondition == TemperaturePositive(temperature) /\ i < MaxIterations

\* Variant of ImprovesCurrent: the comparison the other way round
ImprovesCurrentFlipped(cand_eff, cur_eff) == cand_eff > cur_eff

\* candidate_efficiency < current_efficiency (line 49)
ImprovesCurrent(cand_eff, cur_eff) == cand_eff < cur_eff

\* Variant of ImprovesBest: the comparison the other way round
ImprovesBestFlipped(cand_eff, best_eff) == cand_eff > best_eff

\* Variant of ImprovesBest: best follows every improvement of current
ImprovesBestAlways(cand_eff, best_eff) == TRUE

\* candidate_efficiency < best_efficiency (line 52)
ImprovesBest(cand_eff, best_eff) == cand_eff < best_eff

\* math.exp(-abs(candidate_efficiency - current_efficiency) / temperature):
\* exactly 1.0 when the efficiencies are equal, and otherwise a double
\* strictly between 0 and 1 (the quotient stays far below 745, where exp
\* underflows to 0.0, for the temperatures and tours of this model).
get_probability(cand_eff, cur_eff, temp) ==
    IF cand_eff = cur_eff THEN "one" ELSE "below_one"

\* random.random() < probability: random() is in [0, 1), so the test always
\* succeeds against 1.0 and can go either way against a smaller probability.
RandomBelow(probability) ==
    IF probability = "one" THEN {TRUE} ELSE BOOLEAN

----------------------------------------------------------------------------
\* Inputs

Grid == (0..MaxCoord) \X (0..MaxCoord)

CoordinateLists(lo, hi) == UNION {[1..n -> Grid] : n \in lo..hi}

Tours(n) == {s \in [1..n -> 0..(n - 1)] : IsPermutation(s, n)}

NoList == <<>>

EmptyHeap == [a \in Addresses |-> NoList]

NotRaised == <<"none", "none">>

----------------------------------------------------------------------------
\* my_main: the state on entry, before get_distances_list is called (line 193)

Init ==
    /\ pc = "get_distances_list"
    /\ raised = NotRaised
    /\ coordinates \in CoordinateLists(0, MaxN)
    /\ distances_list = <<>>
    /\ current_node = 0
    /\ solution = NoList
    /\ temp_list = NoList
    /\ remaining = 0
    /\ starting_efficiency = 0
    /\ heap = EmptyHeap
    /\ current_solution = 0
    /\ best_solution = 0
    /\ candidate = 0
    /\ current_efficiency = 0
    /\ best_efficiency = 0
    /\ candidate_efficiency = 0
    /\ efficiency_list = NoList
    /\ temperature = <<0, 0>>
    /\ i = 0

\* my_main line 193: get_distances_list has no check of the number of points
GetDistancesList ==
    /\ pc = "get_distances_list"
    /\ distances_list' = get_distances_list(coordinates)
    /\ pc' = "get_initial_solution"
    /\ UNCHANGED <<raised, coordinates, greedyVars, starting_efficiency, saVars>>

\* get_initial_solution lines 107-110
GreedyStart ==
    /\ pc = "get_initial_solution"
    /\ \E start \in StartCities(N) :
          LET all == Range0(N)
          IN  /\ current_node' = start
              /\ solution' = <<start>>
              /\ IF Contains(all, start)
                 THEN /\ temp_list' = Remove(all, start)
                      /\ remaining' = Len(all) - 1
                      /\ pc' = "greedy_loop"
                      /\ raised' = raised
                 ELSE /\ temp_list' = all
                      /\ remaining' = remaining
                      /\ pc' = "failed"
                      /\ raised' = <<"ValueError", "get_initial_solution">>
    /\ UNCHANGED <<coordinates, distances_list, starting_efficiency, saVars>>

\* get_initial_solution lines 111-117: one pass of the loop
GreedyStep ==
    /\ pc = "greedy_loop"
    /\ remaining > 0
    /\ LET next == NearestIndex(distances_list, current_node, temp_list)
       IN  /\ current_node' = next
           /\ IF Contains(temp_list, next)
              THEN /\ temp_list' = Remove(temp_list, next)
                   /\ solution' = Append(solution, next)
                   /\ remaining' = remaining - 1
                   /\ pc' = pc
                   /\ raised' = raised
              ELSE /\ UNCHANGED <<temp_list, solution, remaining>>
                   /\ pc' = "failed"
                   /\ raised' = <<"ValueError", "get_initial_solution">>
    /\ UNCHANGED <<coordinates, distances_list, starting_efficiency, saVars>>

\* get_initial_solution returns (line 118) and my_main evaluates the tour
\* (line 197)
StartingEfficiency ==
    /\ pc = "greedy_loop"
    /\ remaining = 0
    /\ starting_efficiency' = get_efficiency(solution, distances_list, N)
    /\ pc' = "do_simulated_annealing"
    /\ UNCHANGED <<raised, coordinates, distances_list, greedyVars, saVars>>

\* do_simulated_annealing lines 37-42; the caller's list is the object at
\* address 1
AnnealingStart ==
    /\ pc = "do_simulated_annealing"
    /\ LET best == CopyOf(1, FreshAddress(1, 0))
       IN  /\ temperature' = <<N, 0>>
           /\ current_efficiency' = starting_efficiency
           /\ best_efficiency' = starting_efficiency
           /\ efficiency_list' = <<starting_efficiency>>
           /\ current_solution' = 1
           /\ best_solution' = best
           /\ heap' = [[EmptyHeap EXCEPT ![1] = solution] EXCEPT ![best] = solution]
           /\ i' = 0
    /\ pc' = "loop"
    /\ UNCHANGED <<raised, coordinates, distances_list, greedyVars,
                   starting_efficiency, candidate, candidate_efficiency>>

\* do_simulated_annealing lines 43-61: one pass of the loop
AnnealingStep ==
    /\ pc = "loop"
    /\ LoopCondition
    /\ LET cand == CopyOf(current_solution, FreshAddress(current_solution, best_solution))
           copied == [heap EXCEPT ![cand] = heap[current_solution]]
       IN  /\ candidate' = cand
           /\ IF RandInt(2, N - 1) = {}
              THEN /\ heap' = copied
                   /\ pc' = "failed"
                   /\ raised' = <<"ValueError", "do_simulated_annealing">>
                   /\ UNCHANGED <<current_solution, best_solution, current_efficiency,
                                  best_efficiency, candidate_efficiency,
                                  efficiency_list, temperature, i>>
              ELSE \E num_a \in RandInt(2, N - 1) :
                   \E num_b \in RandInt(0, N - num_a) :
                     LET reversed == [copied EXCEPT ![cand] =
                                         ReverseSegment(copied[cand], num_b, num_a)]
                         cand_eff == get_efficiency(reversed[cand], distances_list, N)
                     IN  /\ heap' = reversed
                         /\ candidate_efficiency' = cand_eff
                         /\ IF ImprovesCurrent(cand_eff, current_efficiency)
                            THEN /\ current_efficiency' = cand_eff
                                 /\ current_solution' = cand
                                 /\ IF ImprovesBest(cand_eff, best_efficiency)
                                    THEN /\ best_efficiency' = cand_eff
                                         /\ best_solution' = cand
                                    ELSE UNCHANGED <<best_efficiency, best_solution>>
                            ELSE /\ \E accept \in RandomBelow(get_probability(
                                         cand_eff, current_efficiency, temperature)) :
                                      IF accept
                                      THEN /\ current_efficiency' = cand_eff
                                           /\ current_solution' = cand
                                      ELSE UNCHANGED <<current_efficiency,
                                                       current_solution>>
                                 /\ UNCHANGED <<best_efficiency, best_solution>>
                         /\ temperature' = <<temperature[1], temperature[2] + 1>>
                         /\ i' = i + 1
                         /\ efficiency_list' = Append(efficiency_list, current_efficiency')
                         /\ pc' = pc
                         /\ raised' = raised
    /\ UNCHANGED <<coordinates, distances_list, greedyVars, starting_efficiency>>

\* do_simulated_annealing lines 43 and 62: the loop condition fails and the
\* function returns best_solution, efficiency_list, best_efficiency
AnnealingReturn ==
    /\ pc = "loop"
    /\ ~LoopCondition
    /\ pc' = "returned"
    /\ UNCHANGED <<raised, coordinates, distances_list, greedyVars,
                   starting_efficiency, saVars>>

Annealing == AnnealingStart \/ AnnealingStep \/ AnnealingReturn

Next ==
    \/ GetDistancesList
    \/ GreedyStart
    \/ GreedyStep
    \/ StartingEfficiency
    \/ AnnealingStart
    \/ AnnealingStep
    \/ AnnealingReturn

Spec == Init /\ [][Next]_vars

----------------------------------------------------------------------------
\* do_simulated_annealing called on its own: a point list with its distance
\* matrix, any tour of its cities, and that tour's efficiency.

\* The four points of the square, in the order (0,0), (0,1), (1,1), (1,0)
Square == <<<<0, 0>>, <<0, 1>>, <<1, 1>>, <<1, 0>>>>

\* Four points whose three cyclic tours all have different lengths
Kite == <<<<0, 0>>, <<0, 1>>, <<1, 1>>, <<2, 0>>>>

\* Two of four points coincide
Doubled == <<<<0, 0>>, <<1, 1>>, <<0, 0>>, <<1, 0>>>>

SAInputs ==
    { <<<<0, 0>>, <<0, 1>>>>,
      <<<<0, 0>>, <<0, 1>>, <<1, 0>>>>,
      Square, Kite, Doubled,
      <<<<0, 0>>, <<0, 1>>, <<1, 1>>, <<1, 0>>, <<2, 1>>>> }

InitSA ==
    /\ pc = "do_simulated_annealing"
    /\ raised = NotRaised
    /\ coordinates \in SAInputs
    /\ distances_list = get_distances_list(coordinates)
    /\ current_node = 0
    /\ solution \in Tours(Len(coordinates))
    /\ temp_list = NoList
    /\ remaining = 0
    /\ starting_efficiency = get_efficiency(solution, distances_list, Len(coordinates))
    /\ heap = EmptyHeap
    /\ current_solution = 0
    /\ best_solution = 0
    /\ candidate = 0
    /\ current_efficiency = 0
    /\ best_efficiency = 0
    /\ candidate_efficiency = 0
    /\ efficiency_list = NoList
    /\ temperature = <<0, 0>>
    /\ i = 0

NextSA ==
    \/ AnnealingStart
    \/ AnnealingStep
    \/ AnnealingReturn

SpecSA == InitSA /\ [][NextSA]_vars

----------------------------------------------------------------------------
\* Properties

\* do_simulated_annealing is running, has returned or has raised
InAnnealing ==
    \/ pc \in {"loop", "returned"}
    \/ pc = "failed" /\ raised[2] = "do_simulated_annealing"

\* get_initial_solution has ended, by returning or by raising
GreedyEnded ==
    \/ pc \in {"do_simulated_annealing", "loop", "returned"}
    \/ pc = "greedy_loop" /\ remaining = 0
    \/ pc = "failed"

\* C1: for every point list with N >= 2 and every start city drawn,
\* get_initial_solution returns a list of length N holding each index of
\* 0..N-1 exactly once.
C1_GreedyReturnsPermutation ==
    (N >= 2 /\ GreedyEnded) =>
        /\ raised[2] # "get_initial_solution"
        /\ IsPermutation(solution, N)

\* C2: with fewer than 2 points the run ends in an InvalidInput failure
\* raised by get_distances_list, before greedy construction, tour evaluation
\* or any annealing step.
C2_InvalidInputAtDistances ==
    (N < 2 /\ pc # "get_distances_list") =>
        /\ pc = "failed"
        /\ raised = <<"InvalidInput", "get_distances_list">>

\* C3: for every N >= 2 and every valid starting tour, no iteration of
\* do_simulated_annealing fails, whatever is drawn.
C3_NoIterationFails ==
    (N >= 2 /\ IsPermutation(solution, N)) => pc # "failed"

\* C4: started with a permutation of 0..N-1, the current tour, the candidate
\* and the best tour are permutations of 0..N-1 in every state of the loop.
C4_ToursArePermutations ==
    InAnnealing =>
        /\ IsPermutation(heap[current_solution], N)
        /\ IsPermutation(heap[best_solution], N)
        /\ candidate # 0 => IsPermutation(heap[candidate], N)

\* C4 witness: two passes have run, the last reversal produced a tour other
\* than the current one, and the best tour is no longer the starting tour.
C4_Witness ==
    /\ pc = "loop"
    /\ i >= 2
    /\ heap[candidate] # heap[current_solution]
    /\ heap[best_solution] # solution
    /\ heap[current_solution] # solution

\* C5: best_efficiency <= current_efficiency in every state of
\* do_simulated_annealing.
C5_BestAtMostCurrent ==
    InAnnealing => best_efficiency <= current_efficiency

\* C5 witness: a worse candidate has been accepted, so that current is
\* strictly worse than best.
C5_Witness ==
    /\ pc = "loop"
    /\ best_efficiency < current_efficiency
    /\ candidate_efficiency = current_efficiency
    /\ heap[candidate] = heap[current_solution]

\* C6: best_efficiency starts as starting_efficiency, and no pass of the loop
\* increases it: best_efficiency <= starting_efficiency throughout.
C6_BestNeverIncreases ==
    [][/\ pc = "do_simulated_annealing" =>
             best_efficiency' = starting_efficiency'
       /\ pc = "loop" =>
             /\ best_efficiency' <= best_efficiency
             /\ best_efficiency' <= starting_efficiency']_vars

\* C6 witness: the function has returned a best efficiency below the
\* starting one, with the current tour worse than the best.
C6_Witness ==
    /\ pc = "returned"
    /\ best_efficiency < starting_efficiency
    /\ best_efficiency < current_efficiency

\* The two tour lengths of the square: around the perimeter, and across both
\* diagonals.
Perimeter == 4 * Scale

Crossing == 2 * Scale + 2 * RoundedSqrt(2)

\* C7 as stated: on the square, from any starting permutation, every run has
\* best_efficiency = 4 when the loop ends.
C7_AlwaysReachesPerimeter ==
    (coordinates = Square /\ pc = "returned") => best_efficiency = Perimeter

\* C7 as amended: on the square best_efficiency is 4 or 4.8284; it is 4 as
\* soon as the current tour or a candidate is a perimeter tour, and it is
\* 4.8284 as long as neither has been (every entry of efficiency_list is
\* then 4.8284).
C7_PerimeterOnceDrawn ==
    (coordinates = Square /\ InAnnealing) =>
        /\ best_efficiency \in {Perimeter, Crossing}
        /\ (current_efficiency = Perimeter
              \/ (i > 0 /\ candidate_efficiency = Perimeter))
             => best_efficiency = Perimeter
        /\ best_efficiency = Perimeter
             <=> \E k \in 1..Len(efficiency_list) : efficiency_list[k] = Perimeter

\* C7 witness: a run on the square that starts from a crossing tour and
\* returns the perimeter.
C7_Witness ==
    /\ coordinates = Square
    /\ pc = "returned"
    /\ starting_efficiency = Crossing
    /\ best_efficiency = Perimeter

\* The unvisited city nearest to current, the lowest index among equals
NearestUnvisited(dist_matrix, current, unvisited) ==
    CHOOSE c \in 0..(N - 1) :
        /\ Contains(unvisited, c)
        /\ \A d \in 0..(N - 1) : Contains(unvisited, d) =>
              \/ dist_matrix[current][c] < dist_matrix[current][d]
              \/ dist_matrix[current][c] = dist_matrix[current][d] /\ c <= d

\* C8: every pass of get_initial_solution's loop appends the unvisited city
\* at minimum distance from the current city, the lowest index among those
\* at that distance.
C8_AppendsNearestUnvisited ==
    [][(pc = "greedy_loop" /\ remaining > 0) =>
          /\ solution' = Append(solution,
                 NearestUnvisited(distances_list, current_node, temp_list))
          /\ temp_list' = Remove(temp_list,
                 NearestUnvisited(distances_list, current_node, temp_list))]_vars

\* C9: the start city is an index of 0..N-1, and removing it from the
\* unvisited cities succeeds.
C9_StartCityValid ==
    (pc # "get_distances_list" /\ pc # "get_initial_solution" /\ N >= 1) =>
        /\ solution[1] \in 0..(N - 1)
        /\ ~Contains(temp_list, solution[1])

\* The stored efficiencies are those of the stored tours
EfficienciesMatch ==
    InAnnealing =>
        /\ get_efficiency(heap[best_solution], distances_list, N) = best_efficiency
        /\ get_efficiency(heap[current_solution], distances_list, N) = current_efficiency

\* C10: at every loop boundary and at return the stored efficiencies are
\* those of the stored tours, and a pass of the loop leaves the lists that
\* were current and best before it as they were.
C10_StoredToursKeepEfficiency ==
    [][/\ EfficienciesMatch'
       /\ pc = "loop" =>
             /\ heap'[current_solution] = heap[current_solution]
             /\ heap'[best_solution] = heap[best_solution]
             /\ heap'[1] = heap[1]]_vars

\* C10 witness: after two passes current and best are different tours and
\* the last candidate, of another efficiency, was rejected.
C10_Witness ==
    /\ pc = "loop"
    /\ i >= 2
    /\ current_solution # best_solution
    /\ current_efficiency # best_efficiency
    /\ candidate # current_solution
    /\ candidate_efficiency # current_efficiency

====
